---- MODULE Spec2Model ----
(***************************************************************************)
(* Interview quiz of the career-coach application: the server actions      *)
(* generateQuiz / saveQuizResult (two variants of the interview actions    *)
(* module are in the repository: src/unnamed/part_000 and                  *)
(* src/unnamed/part_001), the useFetch hook and the Quiz component.        *)
(*                                                                         *)
(* JavaScript strings that the code takes apart (question types, the       *)
(* category label, completion text) are sequences of one-character         *)
(* strings.  Strings that are only compared (option texts, error           *)
(* messages, identities) are TLA+ strings.                                 *)
(***************************************************************************)
EXTENDS Integers, Sequences, FiniteSets, TLC

\* ------------------------------------------------------------------------
\* Bounds of the model
\* ------------------------------------------------------------------------
\* Longest question set handed to saveQuizResult.
MaxN == 3
\* Most assessment records the store holds before saves stop being tried.
MaxRecords == 1

\* ------------------------------------------------------------------------
\* JavaScript values
\* ------------------------------------------------------------------------
Null == "<null>"
Undefined == "<undefined>"
\* improvementTip is a string (sequence of characters) or null.
NullTip == [null |-> TRUE]
StrTip(s) == [str |-> s]
\* A number that may be fractional or NaN: num/den in lowest terms, NaN = 0/0.
RECURSIVE GCD(_, _)
GCD(a, b) == IF b = 0 THEN a ELSE GCD(b, a % b)
Ratio(n, d) == IF d = 0 THEN [num |-> 0, den |-> 0]
               ELSE [num |-> n \div GCD(n, d), den |-> d \div GCD(n, d)]
Int2Num(k) == [num |-> k, den |-> 1]
NaN == [num |-> 0, den |-> 0]

\* Math.round(x) for x = n/d >= 0: the integer nearest to x, halves upward.
MathRound(x) == IF x.den = 0 THEN NaN
                ELSE Int2Num((2 * x.num + x.den) \div (2 * x.den))

LowerCase == <<"a","b","c","d","e","f","g","h","i","j","k","l","m",
               "n","o","p","q","r","s","t","u","v","w","x","y","z">>
UpperCase == <<"A","B","C","D","E","F","G","H","I","J","K","L","M",
               "N","O","P","Q","R","S","T","U","V","W","X","Y","Z">>
\* String.prototype.toUpperCase on one character.
toUpperCase(c) == IF \E i \in 1..Len(LowerCase) : LowerCase[i] = c
                  THEN UpperCase[CHOOSE i \in 1..Len(LowerCase) : LowerCase[i] = c]
                  ELSE c
\* t.charAt(0).toUpperCase() + t.slice(1)
Capitalize(t) == IF t = <<>> THEN <<>> ELSE <<toUpperCase(t[1])>> \o Tail(t)

\* [...new Set(xs)]: the distinct elements in order of first insertion.
RECURSIVE SetOrder(_)
SetOrder(xs) ==
  IF xs = <<>> THEN <<>>
  ELSE LET init == SetOrder(SubSeq(xs, 1, Len(xs) - 1))
           last == xs[Len(xs)]
       IN IF \E i \in 1..Len(init) : init[i] = last THEN init
          ELSE Append(init, last)

\* Array.prototype.join
RECURSIVE Join(_, _)
Join(xs, sep) ==
  IF xs = <<>> THEN <<>>
  ELSE IF Len(xs) = 1 THEN xs[1]
  ELSE xs[1] \o sep \o Join(Tail(xs), sep)

\* obj.f for a key that may be missing
Field(obj, f) == IF f \in DOMAIN obj THEN obj[f] ELSE Undefined
\* arr[i] for a zero-based index i that may be out of range
At(arr, i) == IF i + 1 \in 1..Len(arr) THEN arr[i + 1] ELSE Undefined

\* ------------------------------------------------------------------------
\* Questions
\* ------------------------------------------------------------------------
technical == <<"t","e","c","h","n","i","c","a","l">>
leadership == <<"l","e","a","d","e","r","s","h","i","p">>
behavioral == <<"b","e","h","a","v","i","o","r","a","l">>
QuizTypes == {technical, leadership}
Options == <<"A", "B", "C", "D">>
QText(i) == <<"Q", i>>
QExpl(i) == <<"E", i>>

\* The i-th question of a generated quiz, with and without the "type" tag
\* (the prompt of part_000 asks for the tag, the prompt of part_001 does not).
TypedQuestion(i, c, t) ==
  [question |-> QText(i), options |-> Options, correctAnswer |-> c,
   explanation |-> QExpl(i), type |-> t]
UntypedQuestion(i, c) ==
  [question |-> QText(i), options |-> Options, correctAnswer |-> c,
   explanation |-> QExpl(i)]
\* The correct option of the i-th question: A, B, A, B, ...
CorrectAt(i) == Options[2 - (i % 2)]
\* The question sets of n questions: every sequence of type tags, and the set
\* without tags.
QuestionSets(n) ==
  {[i \in 1..n |-> TypedQuestion(i, CorrectAt(i), ts[i])] : ts \in [1..n -> QuizTypes]}
  \cup {[i \in 1..n |-> UntypedQuestion(i, CorrectAt(i))]}

\* ------------------------------------------------------------------------
\* Collaborators of the server actions
\* ------------------------------------------------------------------------
\* clerkUserIds that have a row in the user table.
Users == {"u1", "u2"}
\* What auth() can yield for the caller of the quiz scenarios: no identity,
\* an identity without a profile, the user u1.
Identities == {Null, "ghost", "u1"}
\* Text a completion call can return (model.generateContent(...).response.text()).
TipTexts == { <<" ","*","*","t","i","p","*","*","\n">> }
\* Outcome of one completion call: it throws, or it returns a text.
AIFail == [fail |-> TRUE]
AIText(s) == [text |-> s]
AIOutcomes == {AIFail} \cup {AIText(s) : s \in TipTexts}

Whitespace == {" ", "\n", "\t"}
\* String.prototype.trim
RECURSIVE TrimStart(_)
TrimStart(s) == IF s # <<>> /\ s[1] \in Whitespace THEN TrimStart(Tail(s)) ELSE s
RECURSIVE TrimEnd(_)
TrimEnd(s) == IF s # <<>> /\ s[Len(s)] \in Whitespace
              THEN TrimEnd(SubSeq(s, 1, Len(s) - 1)) ELSE s
trim(s) == TrimEnd(TrimStart(s))
\* s.replace(/\*\*/g, ''): every non-overlapping pair of asterisks, left to right
RECURSIVE ReplaceBold(_)
ReplaceBold(s) ==
  IF s = <<>> THEN <<>>
  ELSE IF Len(s) >= 2 /\ s[1] = "*" /\ s[2] = "*" THEN ReplaceBold(SubSeq(s, 3, Len(s)))
  ELSE <<s[1]>> \o ReplaceBold(Tail(s))

\* ------------------------------------------------------------------------
\* saveQuizResult, variant of src/unnamed/part_000
\* ------------------------------------------------------------------------
\* (for C19: the answer taken from the next index)
questionResultsShifted(questions, answers) ==
  [i \in 1..Len(questions) |->
     [question |-> questions[i].question,
      options |-> Field(questions[i], "options"),
      correctAnswer |-> Field(questions[i], "correctAnswer"),
      userAnswer |-> At(answers, i),
      isCorrect |-> Field(questions[i], "correctAnswer") = At(answers, i),
      explanation |-> Field(questions[i], "explanation"),
      type |-> Field(questions[i], "type")]]
\* questions.map((q, index) => ({...}))
questionResults000(questions, answers) ==
  [i \in 1..Len(questions) |->
     [question |-> questions[i].question,
      options |-> Field(questions[i], "options"),
      correctAnswer |-> Field(questions[i], "correctAnswer"),
      userAnswer |-> At(answers, i - 1),
      isCorrect |-> Field(questions[i], "correctAnswer") = At(answers, i - 1),
      explanation |-> Field(questions[i], "explanation"),
      type |-> Field(questions[i], "type")]]

\* (for C9: the filter's test inverted)
RECURSIVE wrongAnswersInverted(_)
wrongAnswersInverted(results) ==
  IF results = <<>> THEN <<>>
  ELSE (IF results[1].isCorrect THEN <<results[1]>> ELSE <<>>)
       \o wrongAnswersInverted(Tail(results))
\* results.filter((q) => !q.isCorrect)
RECURSIVE wrongAnswers(_)
wrongAnswers(results) ==
  IF results = <<>> THEN <<>>
  ELSE (IF ~results[1].isCorrect THEN <<results[1]>> ELSE <<>>)
       \o wrongAnswers(Tail(results))
\* results.filter((q) => q.isCorrect).length
RECURSIVE correctCount(_)
correctCount(results) ==
  IF results = <<>> THEN 0
  ELSE (IF results[1].isCorrect THEN 1 ELSE 0) + correctCount(Tail(results))

\* Math.round((correct / questions.length) * 100)
scorePercentage(results, n) == MathRound(Ratio(100 * correctCount(results), n))

\* getCategory: the distinct types; it throws a TypeError on a missing type.
types(questions) == SetOrder([i \in 1..Len(questions) |-> Field(questions[i], "type")])
getCategoryThrows(questions) == \E i \in 1..Len(questions) : "type" \notin DOMAIN questions[i]
getCategory(questions) ==
  LET ts == types(questions)
  IN IF Len(ts) = 1 THEN Capitalize(ts[1])
     ELSE Join([i \in 1..Len(ts) |-> Capitalize(ts[i])], <<" ", "&", " ">>)

\* The prompt of the advice call, as far as it depends on the arguments: the
\* wrong answers it lists (question, correct answer, explanation of each).
\* (for C16: only the first wrong answer listed)
improvementPromptFirstOnly(wrong) ==
  [i \in 1..1 |->
     [question |-> wrong[i].question, correctAnswer |-> wrong[i].correctAnswer,
      explanation |-> wrong[i].explanation]]
improvementPrompt000(wrong) ==
  [i \in 1..Len(wrong) |->
     [question |-> wrong[i].question, correctAnswer |-> wrong[i].correctAnswer,
      explanation |-> wrong[i].explanation]]

\* What one call does: status and message, the prompts sent to the completion
\* service, and the records it creates (none or one).
Thrown(msg, prompts) ==
  [status |-> "error", error |-> msg, prompts |-> prompts, created |-> <<>>]
Returned(rec, prompts) ==
  [status |-> "ok", error |-> "", prompts |-> prompts, created |-> <<rec>>]

saveQuizResult000(identity, questions, answers, score, ai, dbOk) ==
  IF identity = Null THEN Thrown("Unauthorized", <<>>)
  ELSE IF identity \notin Users THEN Thrown("User not found", <<>>)
  ELSE
    LET results == questionResults000(questions, answers)
        wrong == wrongAnswers(results)
        prompts == IF Len(wrong) > 0 THEN <<improvementPrompt000(wrong)>> ELSE <<>>
    IN IF Len(wrong) > 0 /\ ai = AIFail THEN Thrown("completion failed", prompts)
       ELSE IF getCategoryThrows(questions) THEN Thrown("TypeError", prompts)
       ELSE IF ~dbOk THEN Thrown("database error", prompts)
       ELSE Returned(
              [userId |-> identity,
               quizScore |-> scorePercentage(results, Len(questions)),
               questions |-> results,
               category |-> getCategory(questions),
               improvementTip |-> IF Len(wrong) > 0
                                  THEN StrTip(trim(ReplaceBold(ai.text)))
                                  ELSE StrTip(<<>>)],
              prompts)

\* ------------------------------------------------------------------------
\* saveQuizResult, variant of src/unnamed/part_001
\* ------------------------------------------------------------------------
questionResults001(questions, answers) ==
  [i \in 1..Len(questions) |->
     [question |-> questions[i].question,
      answer |-> Field(questions[i], "correctAnswer"),
      userAnswer |-> At(answers, i - 1),
      isCorrect |-> Field(questions[i], "correctAnswer") = At(answers, i - 1),
      explanation |-> Field(questions[i], "explanation")]]

improvementPrompt001(wrong) ==
  [i \in 1..Len(wrong) |->
     [question |-> wrong[i].question, correctAnswer |-> wrong[i].answer,
      userAnswer |-> wrong[i].userAnswer]]

Technical == <<"T","e","c","h","n","i","c","a","l">>

saveQuizResult001(identity, questions, answers, score, ai, dbOk) ==
  IF identity = Null THEN Thrown("Unauthorized", <<>>)
  ELSE IF identity \notin Users THEN Thrown("User not found", <<>>)
  ELSE
    LET results == questionResults001(questions, answers)
        wrong == wrongAnswers(results)
        prompts == IF Len(wrong) > 0 THEN <<improvementPrompt001(wrong)>> ELSE <<>>
        improvementTip == IF Len(wrong) > 0 /\ ai # AIFail
                          THEN StrTip(trim(ai.text)) ELSE NullTip
    IN IF ~dbOk THEN Thrown("Failed to save quiz result", prompts)
       ELSE Returned(
              [userId |-> identity,
               quizScore |-> score,
               questions |-> results,
               category |-> Technical,
               improvementTip |-> improvementTip],
              prompts)

\* The interview-actions modules of the repository.
Variants == {"part_000", "part_001"}
saveQuizResult(v, identity, questions, answers, score, ai, dbOk) ==
  IF v = "part_000"
  THEN saveQuizResult000(identity, questions, answers, score, ai, dbOk)
  ELSE saveQuizResult001(identity, questions, answers, score, ai, dbOk)

\* ------------------------------------------------------------------------
\* The Quiz component's score, passed as the third argument
\* ------------------------------------------------------------------------
\* calculateScore: (correct / quizData.length) * 100, not rounded
RECURSIVE correctAnswersOf(_, _, _)
correctAnswersOf(quizData, answers, i) ==
  IF i > Len(answers) THEN 0
  ELSE (IF answers[i] = Field(quizData[i], "correctAnswer") THEN 1 ELSE 0)
       + correctAnswersOf(quizData, answers, i + 1)
calculateScore(quizData, answers) ==
  Ratio(100 * correctAnswersOf(quizData, answers, 1), Len(quizData))

\* ------------------------------------------------------------------------
\* generateQuiz (the same parsing in part_000 and part_001)
\* ------------------------------------------------------------------------
\* Longest questions array in a completion.
MaxGen == 2

\* A completion text is a sequence of tokens: a code fence (three backticks), the tag json, a
\* newline, a blank, a complete JSON document (with the value it denotes), or
\* text that is no JSON.
Fence == [t |-> "fence"]
JsonTag == [t |-> "json"]
NL == [t |-> "\n"]
Blank == [t |-> " "]
Junk == [t |-> "junk"]
Doc(v) == [t |-> "doc", v |-> v]
\* A JSON document can also come in pieces: its text up to the inside of the
\* first question's "question" string, the characters of that string, and
\* the rest of the document.
QOpen == [t |-> "open"]
QClose == [t |-> "close"]

\* JSON values: null, an object (a record of its keys), arrays as sequences.
JNull == [jnull |-> TRUE]
JObject(o) == [obj |-> o]
\* JavaScript values returned to the caller: undefined or an array.
Undef == [undefined |-> TRUE]
Arr(xs) == [arr |-> xs]

\* text.replace(/FENCE(?:json)?\n?/g, ""), FENCE being three backticks
RECURSIVE ReplaceFences(_)
ReplaceFences(text) ==
  IF text = <<>> THEN <<>>
  ELSE IF text[1] = Fence
       THEN LET r1 == Tail(text)
                r2 == IF r1 # <<>> /\ r1[1] = JsonTag THEN Tail(r1) ELSE r1
                r3 == IF r2 # <<>> /\ r2[1] = NL THEN Tail(r2) ELSE r2
            IN ReplaceFences(r3)
       ELSE <<text[1]>> \o ReplaceFences(Tail(text))
\* .trim() on tokens
RECURSIVE TrimTokStart(_)
TrimTokStart(s) == IF s # <<>> /\ s[1] \in {NL, Blank} THEN TrimTokStart(Tail(s)) ELSE s
RECURSIVE TrimTokEnd(_)
TrimTokEnd(s) == IF s # <<>> /\ s[Len(s)] \in {NL, Blank}
                 THEN TrimTokEnd(SubSeq(s, 1, Len(s) - 1)) ELSE s
cleanedText(text) == TrimTokEnd(TrimTokStart(ReplaceFences(text)))

\* JSON.parse: one document and nothing else, or a SyntaxError.  Inside a
\* string a raw newline is a SyntaxError, every other character is content.
StringChars == {Fence, JsonTag, Blank, Junk}
ParseOK(cleaned) ==
  \/ Len(cleaned) = 1 /\ cleaned[1].t = "doc"
  \/ /\ Len(cleaned) >= 2
     /\ cleaned[1] = QOpen /\ cleaned[Len(cleaned)] = QClose
     /\ \A k \in 2..(Len(cleaned) - 1) : cleaned[k] \in StringChars
JSONparse(cleaned) ==
  IF Len(cleaned) = 1 THEN cleaned[1].v
  ELSE [obj |-> [questions |->
         <<[question |-> <<"Q", 1>> \o [k \in 1..(Len(cleaned) - 2) |-> cleaned[k + 1].t],
            options |-> <<"A", "B", "C", "D">>, correctAnswer |-> "A",
            explanation |-> <<"E", 1>>,
            type |-> <<"t","e","c","h","n","i","c","a","l">>]>>]]

\* (for C10: the profile check dropped)
generateQuizNoProfileCheck(identity, ai) ==
  IF identity = Null THEN [status |-> "error", error |-> "Unauthorized", calls |-> 0, value |-> Undef]
  ELSE IF ai = AIFail \/ ~ParseOK(cleanedText(ai.text))
       THEN [status |-> "error", error |-> "Failed to generate quiz questions",
             calls |-> 1, value |-> Undef]
  ELSE [status |-> "ok", error |-> "", calls |-> 1, value |-> Undef]
generateQuiz(identity, ai) ==
  IF identity = Null THEN [status |-> "error", error |-> "Unauthorized", calls |-> 0, value |-> Undef]
  ELSE IF identity \notin Users
       THEN [status |-> "error", error |-> "User not found", calls |-> 0, value |-> Undef]
  ELSE IF ai = AIFail \/ ~ParseOK(cleanedText(ai.text))
       THEN [status |-> "error", error |-> "Failed to generate quiz questions",
             calls |-> 1, value |-> Undef]
  ELSE LET quiz == JSONparse(cleanedText(ai.text))
       IN IF quiz = JNull
          THEN [status |-> "error", error |-> "Failed to generate quiz questions",
                calls |-> 1, value |-> Undef]
          ELSE [status |-> "ok", error |-> "", calls |-> 1,
                value |-> IF "questions" \in DOMAIN quiz.obj
                          THEN Arr(quiz.obj.questions) ELSE Undef]

\* Elements a completion can put in its questions array.
GoodQuestion(i) == TypedQuestion(i, CorrectAt(i), technical)
NoCorrectAnswer(i) ==
  [question |-> QText(i), options |-> Options, explanation |-> QExpl(i), type |-> technical]
ForeignCorrectAnswer(i) == TypedQuestion(i, "Z", technical)
ThreeOptions(i) == [GoodQuestion(i) EXCEPT !.options = <<"A", "B", "C">>]
EmptyQuestion(i) == [GoodQuestion(i) EXCEPT !.question = <<>>]
EmptyExplanation(i) == [GoodQuestion(i) EXCEPT !.explanation = <<>>]
BadQuestions(i) ==
  {NoCorrectAnswer(i), ForeignCorrectAnswer(i), ThreeOptions(i), EmptyQuestion(i),
   EmptyExplanation(i)}
\* questions arrays: all good, or good ones around one bad element
GenArrays ==
  UNION {{[i \in 1..n |-> GoodQuestion(i)]}
         \cup UNION {{[i \in 1..n |-> IF i = p THEN b ELSE GoodQuestion(i)] :
                        b \in BadQuestions(p)} : p \in 1..n}
         : n \in 0..MaxGen}
GenDocs ==
  {Doc(JNull), Doc(JObject([other |-> 1]))}
  \cup {Doc(JObject([questions |-> a])) : a \in GenArrays}
\* the ways a completion wraps a document
Wrappings(d) ==
  {<<d>>, <<Fence, JsonTag, NL, d, NL, Fence>>, <<Fence, NL, d, NL, Fence, NL>>,
   <<JsonTag, NL, d>>}
\* JSON texts whose question string holds plain text, and a code snippet
\* between fences.
CodeDocs == {<<QOpen, Junk, QClose>>, <<QOpen, Fence, Junk, Fence, QClose>>}
\* a JSON text bare, between fences, and between fences with the json tag
FencedTexts(J) ==
  {J, <<Fence, NL>> \o J \o <<NL, Fence>>, <<Fence, JsonTag, NL>> \o J \o <<NL, Fence>>}
GenTexts ==
  {<<>>, <<Junk>>} \cup UNION {Wrappings(d) : d \in GenDocs}
  \cup UNION {FencedTexts(J) : J \in CodeDocs}

\* ------------------------------------------------------------------------
\* The server actions called directly
\* ------------------------------------------------------------------------
VARIABLES
  variant,          \* the interview-actions module that is deployed
  reqQuestions,     \* the arguments a caller submits to saveQuizResult
  reqAnswers,
  reqScore,
  genText,          \* the text the completion service returns to generateQuiz
  assessments,      \* the assessment table, in creation order
  ret               \* the last server call: its inputs and its outcome

serverVars == <<variant, reqQuestions, reqAnswers, reqScore, genText,
                assessments, ret>>

VARIABLES
  currentQuestion,  \* Quiz: index of the question shown (from 0)
  answers,          \* Quiz: the answer sheet
  showExplanation,  \* Quiz: explanation visible
  quizStarted,      \* Quiz: the quiz has started
  genFetch,         \* useFetch(generateQuiz): data (quizData), loading, error
  saveFetch,        \* useFetch(saveQuizResult): data (resultData), loading, error
  genPending,       \* generateQuizFn calls in flight, each with what awaits it
  savePending,      \* saveQuizResultFn calls in flight, each with its arguments
  toasts,           \* the notifications raised by the last step
  attemptSaved      \* history: records created since the quiz attempt began

quizVars == <<currentQuestion, answers, showExplanation, quizStarted, genFetch,
              saveFetch, genPending, savePending, toasts, attemptSaved>>

VARIABLES
  users,            \* the user table, in creation order
  insights,         \* the industry-insight table, in creation order
  calls,            \* the server calls made so far, each with its position and locals
  now               \* the clock, in milliseconds

platformVars == <<users, insights, calls, now>>
\* No user, no insight record and no call: the scenarios about the quiz,
\* the history and the resume leave these tables alone.
PlatformIdle ==
  /\ users = <<>>
  /\ insights = <<>>
  /\ calls = <<>>
  /\ now = 0

vars == <<serverVars, quizVars, platformVars>>

\* Answer sheets submitted for n questions: every sheet of length n over a
\* right-or-wrong option, an option of no question, and an unanswered slot;
\* one sheet that is one slot short, one that is one slot long; and sheets
\* that differ from an option in case or by a leading blank.
AnswerValues == {"A", "B", Null}
AnswerSheets(n) ==
  [1..n -> AnswerValues]
  \cup {[i \in 1..n |-> "Z"]}
  \cup {[i \in 1..n |-> "a"], [i \in 1..n |-> " A"]}
  \cup {[i \in 1..(n + 1) |-> "A"]}
  \cup (IF n > 0 THEN {[i \in 1..(n - 1) |-> "A"]} ELSE {})
\* Scores submitted: the one the Quiz component computes, and another number.
BogusScore == Int2Num(7)
Scores(questions, sheet) ==
  {BogusScore} \cup (IF Len(sheet) <= Len(questions) /\ Len(questions) > 0
                     THEN {calculateScore(questions, sheet)} ELSE {})

DefaultQuestions == <<TypedQuestion(1, "A", technical)>>
DefaultText == <<Doc(JObject([questions |-> <<GoodQuestion(1)>>]))>>

\* Question sets whose last question lacks its correctAnswer (generateQuiz
\* hands such sets to the client unchecked).
MalformedSets ==
  {[i \in 1..n |-> IF i = n THEN NoCorrectAnswer(i) ELSE GoodQuestion(i)] : n \in 1..MaxN}
SaveScenario ==
  /\ reqQuestions \in UNION {QuestionSets(n) : n \in 0..MaxN} \cup MalformedSets
  /\ reqAnswers \in AnswerSheets(Len(reqQuestions))
  /\ reqScore \in Scores(reqQuestions, reqAnswers)
  /\ genText = DefaultText
GenScenario ==
  /\ reqQuestions = DefaultQuestions
  /\ reqAnswers = <<"A">>
  /\ reqScore = Int2Num(100)
  /\ genText \in GenTexts

\* The state of a freshly mounted Quiz component (useState initial values).
QuizInit ==
  /\ currentQuestion = 0
  /\ answers = <<>>
  /\ showExplanation = FALSE
  /\ quizStarted = FALSE
  /\ genFetch = [data |-> Undef, loading |-> Null, error |-> Null]
  /\ saveFetch = [data |-> Undef, loading |-> Null, error |-> Null]
  /\ genPending = <<>>
  /\ savePending = <<>>
  /\ toasts = <<>>
  /\ attemptSaved = 0

ServerInit ==
  /\ variant \in Variants
  /\ SaveScenario \/ GenScenario
  /\ assessments = <<>>
  /\ ret = [op |-> "none"]

\* The collaborators' outcomes are drawn for the callers that have a profile;
\* for the others one outcome stands for all (no call reaches a collaborator).
CompletionOutcomes(identity, outcomes) ==
  IF identity \in Users THEN outcomes ELSE {CHOOSE o \in outcomes : o # AIFail}
StoreOutcomes(identity) == IF identity \in Users THEN BOOLEAN ELSE {TRUE}

SaveQuizResultCall ==
  /\ Len(assessments) < MaxRecords
  /\ \E identity \in Identities :
     \E ai \in CompletionOutcomes(identity, AIOutcomes), dbOk \in StoreOutcomes(identity) :
       \E out \in {saveQuizResult(variant, identity, reqQuestions, reqAnswers,
                                  reqScore, ai, dbOk)} :
          /\ assessments' = assessments \o out.created
          /\ ret' = [op |-> "saveQuizResult", identity |-> identity, ai |-> ai,
                     dbOk |-> dbOk, status |-> out.status, error |-> out.error,
                     prompts |-> out.prompts, calls |-> Len(out.prompts),
                     created |-> out.created # <<>>]
  /\ UNCHANGED <<variant, reqQuestions, reqAnswers, reqScore, genText>>
  /\ UNCHANGED <<quizVars, platformVars>>

GenerateQuizCall ==
  /\ \E identity \in Identities :
     \E ai \in CompletionOutcomes(identity, {AIFail, AIText(genText)}) :
       \E out \in {generateQuiz(identity, ai)} :
          /\ ret' = [op |-> "generateQuiz", identity |-> identity, ai |-> ai,
                     status |-> out.status, error |-> out.error,
                     calls |-> out.calls, value |-> out.value]
  /\ UNCHANGED <<variant, reqQuestions, reqAnswers, reqScore, genText, assessments>>
  /\ UNCHANGED <<quizVars, platformVars>>

Init == ServerInit /\ QuizInit /\ PlatformIdle
Next == SaveQuizResultCall \/ GenerateQuizCall
Spec == Init /\ [][Next]_vars

\* ------------------------------------------------------------------------
\* The assessment history: saves by several users, and getAssessments
\* ------------------------------------------------------------------------
\* Most assessment records in the history scenario.
MaxHistory == 3
\* The callers of the history scenario: anyone.
Callers == Identities \cup Users
\* Answer sheets saved in the history scenario (one question, correct answer A).
HistorySheets == {<<"A">>, <<"B">>}

\* (for C18: the where clause dropped)
findManyAll(table, uid) == table
\* db.assessment.findMany({where: {userId}, orderBy: {createdAt: "asc"}}): the
\* table is kept in creation order, which is the order of createdAt.
RECURSIVE findMany(_, _)
findMany(table, uid) ==
  IF table = <<>> THEN <<>>
  ELSE (IF table[1].userId = uid THEN <<table[1]>> ELSE <<>>) \o findMany(Tail(table), uid)

getAssessments(identity, table, dbOk) ==
  IF identity = Null THEN [status |-> "error", error |-> "Unauthorized", value |-> <<>>]
  ELSE IF identity \notin Users
       THEN [status |-> "error", error |-> "User not found", value |-> <<>>]
  ELSE IF ~dbOk
       THEN [status |-> "error", error |-> "Failed to fetch assessments", value |-> <<>>]
  ELSE [status |-> "ok", error |-> "", value |-> findMany(table, identity)]

SaveQuizResultByAnyone ==
  /\ Len(assessments) < MaxHistory
  /\ \E identity \in Callers, sheet \in HistorySheets :
     \E ai \in CompletionOutcomes(identity, AIOutcomes), dbOk \in StoreOutcomes(identity) :
       \E out \in {saveQuizResult(variant, identity, reqQuestions, sheet,
                                  reqScore, ai, dbOk)} :
          /\ reqAnswers' = sheet
          /\ assessments' = assessments \o out.created
          /\ ret' = [op |-> "saveQuizResult", identity |-> identity, ai |-> ai,
                     dbOk |-> dbOk, status |-> out.status, error |-> out.error,
                     prompts |-> out.prompts, calls |-> Len(out.prompts),
                     created |-> out.created # <<>>]
  /\ UNCHANGED <<variant, reqQuestions, reqScore, genText>>
  /\ UNCHANGED <<quizVars, platformVars>>

GetAssessmentsCall ==
  /\ \E identity \in Callers, dbOk \in BOOLEAN :
     \E out \in {getAssessments(identity, assessments, dbOk)} :
        ret' = [op |-> "getAssessments", identity |-> identity, dbOk |-> dbOk,
                status |-> out.status, error |-> out.error, calls |-> 0,
                value |-> out.value]
  /\ UNCHANGED <<variant, reqQuestions, reqAnswers, reqScore, genText, assessments>>
  /\ UNCHANGED <<quizVars, platformVars>>

HistoryInit ==
  /\ variant \in Variants
  /\ reqQuestions = DefaultQuestions
  /\ reqAnswers = <<"A">>
  /\ reqScore = Int2Num(100)
  /\ genText = DefaultText
  /\ assessments = <<>>
  /\ ret = [op |-> "none"]
InitHistory == HistoryInit /\ QuizInit /\ PlatformIdle
NextHistory == SaveQuizResultByAnyone \/ GetAssessmentsCall
SpecHistory == InitHistory /\ [][NextHistory]_vars

\* ------------------------------------------------------------------------
\* The improvement tip: saves with every raw completion text
\* ------------------------------------------------------------------------
\* Longest raw completion text of the tip scenario.
MaxTip == 4
\* The characters of a raw text: the emphasis marker, white space, a letter.
TipChars == {"*", " ", "t"}
RawTips == UNION {[1..n -> TipChars] : n \in 0..MaxTip}

\* A finished one-question quiz with a wrong answer, saved by u1; the
\* completion service answers the advice call with any raw text.
SaveQuizResultWithTip ==
  /\ Len(assessments) < MaxRecords
  /\ \E raw \in RawTips :
     \E out \in {saveQuizResult(variant, "u1", reqQuestions, reqAnswers, reqScore,
                                 AIText(raw), TRUE)} :
        /\ assessments' = assessments \o out.created
        /\ ret' = [op |-> "saveQuizResult", identity |-> "u1", ai |-> AIText(raw),
                   dbOk |-> TRUE, status |-> out.status, error |-> out.error,
                   prompts |-> out.prompts, calls |-> Len(out.prompts),
                   created |-> out.created # <<>>]
  /\ UNCHANGED <<variant, reqQuestions, reqAnswers, reqScore, genText>>
  /\ UNCHANGED <<quizVars, platformVars>>

TipsInit ==
  /\ variant \in Variants
  /\ reqQuestions = DefaultQuestions
  /\ reqAnswers = <<"B">>
  /\ reqScore = Int2Num(0)
  /\ genText = DefaultText
  /\ assessments = <<>>
  /\ ret = [op |-> "none"]
InitTips == TipsInit /\ QuizInit /\ PlatformIdle
NextTips == SaveQuizResultWithTip
SpecTips == InitTips /\ [][NextTips]_vars

\* ------------------------------------------------------------------------
\* The resume builder: entriesToMarkdown
\* ------------------------------------------------------------------------
\* A markdown text is the sequence of the pieces the template literals put
\* together: the fixed pieces and the values of the entry's fields.
\* Longest entry list.
MaxEntries == 2
SectionTypes == {"Work Experience", "Education"}
\* The entries of the form: handleAdd stores "" as endDate of a current entry,
\* but any combination can be passed.
Entries ==
  [title : {"T1", "T2"}, organization : {"O"}, startDate : {"Jan 2020"},
   endDate : {"", "Dec 2021"}, description : {"D"}, current : BOOLEAN]
EntryLists ==
  {[null |-> TRUE], [undefined |-> TRUE]}
  \cup {[arr |-> xs] : xs \in UNION {[1..n -> Entries] : n \in 0..MaxEntries}}

\* (for C22: the current flag ignored)
dateRangeIgnoringCurrent(entry) == <<entry.startDate, " - ", entry.endDate>>
\* entry.current ? startDate - Present : startDate - endDate
dateRange(entry) ==
  IF entry.current THEN <<entry.startDate, " - ", "Present">>
  ELSE <<entry.startDate, " - ", entry.endDate>>
entryBlock(entry) ==
  <<"### ", entry.title, " @ ", entry.organization, "\n">> \o dateRange(entry)
  \o <<"\n\n", entry.description>>
entriesToMarkdown(entries, type) ==
  IF "arr" \notin DOMAIN entries \/ Len(entries.arr) = 0 THEN <<>>
  ELSE <<"## ", type, "\n\n">>
       \o Join([i \in 1..Len(entries.arr) |-> entryBlock(entries.arr[i])], <<"\n\n">>)

EntriesToMarkdownCall ==
  /\ ret.op = "none"
  /\ \E entries \in EntryLists, type \in SectionTypes :
       ret' = [op |-> "entriesToMarkdown", entries |-> entries, type |-> type,
               value |-> entriesToMarkdown(entries, type)]
  /\ UNCHANGED <<variant, reqQuestions, reqAnswers, reqScore, genText, assessments>>
  /\ UNCHANGED <<quizVars, platformVars>>

InitResume == HistoryInit /\ QuizInit /\ PlatformIdle
NextResume == EntriesToMarkdownCall
SpecResume == InitResume /\ [][NextResume]_vars

\* ------------------------------------------------------------------------
\* Claims about the server actions
\* ------------------------------------------------------------------------
Abs(x) == IF x < 0 THEN -x ELSE x
\* The last call was saveQuizResult and it created a record (the last one).
SaveCreated == ret.op = "saveQuizResult" /\ ret.created
LastRecord == assessments[Len(assessments)]
\* The number of indices i with answers[i] equal to questions[i].correctAnswer.
ClaimCorrect ==
  Cardinality({i \in 1..Len(reqQuestions) :
                 i <= Len(reqAnswers)
                 /\ reqAnswers[i] = Field(reqQuestions[i], "correctAnswer")})
EqualLengths == Len(reqQuestions) >= 1 /\ Len(reqAnswers) = Len(reqQuestions)

\* C1: for a question set of length N >= 1 and an answer sheet of length N,
\* the score stored by saveQuizResult is an integer nearest to
\* 100 * correctCount / N, whatever score the caller passed.
C1_StoredScoreIsRoundedPercentage ==
  (SaveCreated /\ EqualLengths) =>
     /\ LastRecord.quizScore.den = 1
     /\ 2 * Abs(100 * ClaimCorrect - Len(reqQuestions) * LastRecord.quizScore.num)
          <= Len(reqQuestions)

\* C2: a saveQuizResult call whose answer sheet and question set differ in
\* length fails and creates no assessment record.
C2_LengthMismatchFails ==
  (ret.op = "saveQuizResult" /\ Len(reqAnswers) # Len(reqQuestions)) =>
     (ret.status = "error" /\ ~ret.created)

\* C3: when the advice completion call fails (and nothing else does), the
\* save goes through: the call returns, one record is created, and its
\* improvementTip is empty or absent.
TypedRequest == \A i \in 1..Len(reqQuestions) : "type" \in DOMAIN reqQuestions[i]
C3_TipFailureDoesNotAbortSave ==
  (/\ ret.op = "saveQuizResult"
   /\ ret.calls > 0 /\ ret.ai = AIFail
   /\ ret.dbOk /\ TypedRequest /\ EqualLengths) =>
     /\ ret.status = "ok"
     /\ ret.created
     /\ LastRecord.improvementTip \in {StrTip(<<>>), NullTip}

\* C4: generateQuiz returns only a non-empty array of well-formed questions
\* (non-empty question, exactly 4 options, correctAnswer among the options,
\* non-empty explanation); every other completion makes it fail.
WellFormedQuestion(q) ==
  /\ {"question", "options", "correctAnswer", "explanation"} \subseteq DOMAIN q
  /\ q.question # <<>>
  /\ Len(q.options) = 4
  /\ \E k \in 1..Len(q.options) : q.options[k] = q.correctAnswer
  /\ q.explanation # <<>>
WellFormedQuiz(v) ==
  /\ "arr" \in DOMAIN v
  /\ Len(v.arr) >= 1
  /\ \A i \in 1..Len(v.arr) : WellFormedQuestion(v.arr[i])
C4_GenerateReturnsOnlyValidQuiz ==
  (ret.op = "generateQuiz" /\ ret.status = "ok") => WellFormedQuiz(ret.value)

\* C8: the stored category is the distinct type values of the questions, each
\* capitalized, in order of first occurrence, joined with " & ".
FirstAt(t) == CHOOSE i \in 1..Len(reqQuestions) :
                /\ reqQuestions[i].type = t
                /\ \A j \in 1..(i - 1) : reqQuestions[j].type # t
Capital(t) == IF t = technical THEN Technical
              ELSE IF t = leadership
                   THEN <<"L","e","a","d","e","r","s","h","i","p">>
                   ELSE <<"B","e","h","a","v","i","o","r","a","l">>
RECURSIVE LabelOf(_)
LabelOf(ts) ==
  IF ts = {} THEN <<>>
  ELSE LET t == CHOOSE x \in ts : \A y \in ts : FirstAt(x) <= FirstAt(y)
       IN IF ts = {t} THEN Capital(t)
          ELSE Capital(t) \o <<" ", "&", " ">> \o LabelOf(ts \ {t})
C8_CategoryFromDistinctTypes ==
  (SaveCreated /\ TypedRequest /\ Len(reqQuestions) >= 1) =>
     LastRecord.category = LabelOf({reqQuestions[i].type : i \in 1..Len(reqQuestions)})

\* C9 as stated: with no incorrect answer saveQuizResult issues no completion
\* call and stores the empty string as improvementTip.
NoIncorrect ==
  \A i \in 1..Len(reqQuestions) :
     i <= Len(reqAnswers) /\ reqAnswers[i] = Field(reqQuestions[i], "correctAnswer")
C10_NoIdentityNoEffect ==
  [][(ret' # ret /\ ret'.identity \notin Users) =>
       /\ ret'.status = "error"
       /\ ret'.error = (IF ret'.identity = Null THEN "Unauthorized" ELSE "User not found")
       /\ ret'.calls = 0
       /\ assessments' = assessments]_vars
C10_Witness ==
  /\ ret.op = "saveQuizResult" /\ ret.identity = "ghost" /\ ret.status = "error"
  /\ ~NoIncorrect

\* C15: the stored isCorrect flag of question i is true exactly when slot i
\* of the answer sheet holds a string equal to questions[i].correctAnswer; an
\* unanswered slot (null or missing) is marked incorrect.
C15_IsCorrectIffStringEqual ==
  SaveCreated =>
    \A i \in 1..Len(reqQuestions) :
       LastRecord.questions[i].isCorrect <=>
         /\ i <= Len(reqAnswers)
         /\ reqAnswers[i] # Null
         /\ "correctAnswer" \in DOMAIN reqQuestions[i]
         /\ reqAnswers[i] = reqQuestions[i].correctAnswer

\* The JSON texts a completion can carry, and the value each denotes.
JsonTexts == {<<d>> : d \in GenDocs} \cup CodeDocs
\* What generateQuiz returns for a parsed object: its questions member.
QuestionsOf(v) == IF "questions" \in DOMAIN v.obj THEN Arr(v.obj.questions) ELSE Undef
\* C17: for every JSON text J, the completion J, J between fences and J
\* between fences with the json tag all normalize to J itself (only the
\* wrapping is removed) and generateQuiz returns what J denotes.
C17_FenceNormalizationKeepsJson ==
  (ret.op = "generateQuiz" /\ ret.identity \in Users /\ ret.ai # AIFail) =>
     \A J \in JsonTexts :
        genText \in FencedTexts(J) =>
          /\ cleanedText(genText) = J
          /\ JSONparse(J) # JNull =>
               (ret.status = "ok" /\ ret.value = QuestionsOf(JSONparse(J)))

\* The rows of the table owned by the caller of the last call, and the k-th
\* of them in creation order.
OwnRows == {i \in 1..Len(assessments) : assessments[i].userId = ret.identity}
OwnRow(k) == CHOOSE i \in OwnRows : Cardinality({j \in OwnRows : j < i}) = k - 1
\* C18: getAssessments returns exactly the caller's records, oldest first,
\* and no record of another user, whoever saved before.
C18_OwnAssessmentsInCreationOrder ==
  (ret.op = "getAssessments" /\ ret.status = "ok") =>
     /\ Len(ret.value) = Cardinality(OwnRows)
     /\ \A k \in 1..Len(ret.value) :
          /\ ret.value[k].userId = ret.identity
          /\ ret.value[k] = assessments[OwnRow(k)]
C18_Witness ==
  /\ ret.op = "getAssessments" /\ ret.status = "ok"
  /\ Len(assessments) = 3 /\ Len(ret.value) = 2
  /\ assessments[2].userId # ret.identity
  /\ ret.value[1] # ret.value[2]

\* The correct answer an entry of the stored detail carries (the key is
\* correctAnswer in part_000 and answer in part_001).
CorrectAnswerIn(entry) ==
  IF "correctAnswer" \in DOMAIN entry THEN entry.correctAnswer ELSE entry.answer
\* C19: the stored per-question detail has one entry per question, in
\* question order; entry i carries question i's text, correct answer and
\* explanation and the answer at index i of the answer sheet.
C19_DetailEntryPerQuestion ==
  SaveCreated =>
    /\ Len(LastRecord.questions) = Len(reqQuestions)
    /\ \A i \in 1..Len(reqQuestions) :
         /\ LastRecord.questions[i].question = reqQuestions[i].question
         /\ CorrectAnswerIn(LastRecord.questions[i]) = Field(reqQuestions[i], "correctAnswer")
         /\ LastRecord.questions[i].explanation = Field(reqQuestions[i], "explanation")
         /\ LastRecord.questions[i].userAnswer = At(reqAnswers, i - 1)
C19_Witness ==
  /\ SaveCreated /\ Len(reqQuestions) = 3 /\ Len(reqAnswers) = 3
  /\ reqAnswers[1] # reqAnswers[2] /\ reqAnswers[2] # reqAnswers[3]

\* A text without its asterisks.
RECURSIVE StripAsterisks(_)
StripAsterisks(t) ==
  IF t = <<>> THEN <<>>
  ELSE (IF t[1] = "*" THEN <<>> ELSE <<t[1]>>) \o StripAsterisks(Tail(t))
\* C21: the stored improvement tip is the raw completion text with every
\* asterisk removed and the white space at both ends trimmed: it holds no
\* asterisk and neither starts nor ends with white space.
C21_TipHasNoAsteriskAndIsTrimmed ==
  (SaveCreated /\ ret.calls = 1) =>
     LET tip == LastRecord.improvementTip.str
     IN /\ \A k \in 1..Len(tip) : tip[k] # "*"
        /\ tip # <<>> => (tip[1] \notin Whitespace /\ tip[Len(tip)] \notin Whitespace)
        /\ tip = trim(StripAsterisks(ret.ai.text))

\* Where the block of entry i starts in the markdown (after the 3 pieces of
\* the header; a block has 10 pieces and a separator follows it).
BlockAt(i) == 3 + 11 * (i - 1)
\* C22: entriesToMarkdown gives the empty string for a null, undefined or
\* empty list; otherwise the "## <type>" header, then one block per entry in
\* input order with a blank line between blocks, each block showing
\* "<startDate> - Present" for a current entry and "<startDate> - <endDate>"
\* for any other.
C22_EntriesToMarkdownLayout ==
  ret.op = "entriesToMarkdown" =>
    IF "arr" \notin DOMAIN ret.entries \/ ret.entries.arr = <<>> THEN ret.value = <<>>
    ELSE LET es == ret.entries.arr
             out == ret.value
         IN /\ Len(out) = 3 + 10 * Len(es) + (Len(es) - 1)
            /\ out[1] = "## " /\ out[2] = ret.type /\ out[3] = "\n\n"
            /\ \A i \in 1..Len(es) :
                 /\ out[BlockAt(i) + 2] = es[i].title
                 /\ out[BlockAt(i) + 6] = es[i].startDate
                 /\ out[BlockAt(i) + 7] = " - "
                 /\ out[BlockAt(i) + 8] = (IF es[i].current THEN "Present" ELSE es[i].endDate)
                 /\ out[BlockAt(i) + 10] = es[i].description
                 /\ i < Len(es) => out[BlockAt(i) + 11] = "\n\n"
C22_Witness ==
  /\ ret.op = "entriesToMarkdown" /\ "arr" \in DOMAIN ret.entries
  /\ Len(ret.entries.arr) = 2
  /\ ret.entries.arr[1].current /\ ~ret.entries.arr[2].current
  /\ ret.entries.arr[1].title # ret.entries.arr[2].title
  /\ ret.entries.arr[1].endDate = "Dec 2021"

\* The indices whose answer is marked incorrect (correctAnswer !== answers[i]).
WrongIdx ==
  {i \in 1..Len(reqQuestions) :
     Field(reqQuestions[i], "correctAnswer") # At(reqAnswers, i - 1)}
\* The last call was saveQuizResult by a caller with a profile.
SaveByUser == ret.op = "saveQuizResult" /\ ret.identity \in Users
PromptEntries == {ret.prompts[1][k] : k \in 1..Len(ret.prompts[1])}
FetchStart(f) == [f EXCEPT !.loading = "true", !.error = Null]
\* fn after cb resolved: setData(response); setError(null); finally setLoading(false)
FetchResolved(f, response) == [data |-> response, loading |-> "false", error |-> Null]
\* (for C11: the finally block dropped)
FetchRejectedStillLoading(f, msg) == [f EXCEPT !.error = msg]
\* fn after cb rejected: setError(error); finally setLoading(false)
FetchRejected(f, msg) == [f EXCEPT !.error = msg, !.loading = "false"]
\* a value in a condition: undefined and null are falsy, arrays and objects truthy
Truthy(v) == "arr" \in DOMAIN v \/ "rec" \in DOMAIN v
NullData == [null |-> TRUE]
Rec(r) == [rec |-> r]

\* ------------------------------------------------------------------------
\* The Quiz component
\* ------------------------------------------------------------------------
\* Longest question set a completion returns to the component.
MaxQ == 2
\* Most assessment records in the store before the component stops saving.
MaxSaved == 2
\* The radio buttons the user clicks: the first option or the second, which
\* covers a right and a wrong answer for every question (see CorrectAt).
Picked == {1, 2}

quizData == genFetch.data
resultData == saveFetch.data
generatingQuiz == genFetch.loading = "true"
savingResult == saveFetch.loading = "true"

\* answers[currentQuestion] is set (not undefined, not null)
Answered(i) == At(answers, i) \notin {Undefined, Null}

\* (for C12: the loader branch dropped)
ScreenWithoutLoader ==
  IF Truthy(resultData) THEN "result"
  ELSE IF ~quizStarted THEN "start"
  ELSE IF ~Truthy(quizData) \/ currentQuestion >= Len(quizData.arr) THEN "crash"
  ELSE "question"
\* What the component renders: the branches of the function body in order;
\* reading quizData[currentQuestion].question of a missing question throws.
Screen ==
  IF generatingQuiz THEN "loader"
  ELSE IF Truthy(resultData) THEN "result"
  ELSE IF ~quizStarted THEN "start"
  ELSE IF ~Truthy(quizData) \/ currentQuestion >= Len(quizData.arr) THEN "crash"
  ELSE "question"

\* (for C7: the savingResult test dropped; for C6: the answer test dropped)
NextEnabledIgnoringSaving == Answered(currentQuestion)
NextEnabledIgnoringAnswer == ~savingResult
\* The Next/Finish button: disabled={!answers[currentQuestion] || savingResult}
NextEnabled == Answered(currentQuestion) /\ ~savingResult

\* useEffect(..., [quizData]): runs when quizData changed to a new value
AnswersAfterEffect(newData, changed) ==
  IF changed /\ Truthy(newData) THEN [i \in 1..Len(newData.arr) |-> Null] ELSE answers

\* newAnswers = [...answers]; newAnswers[currentQuestion] = answer
SetAnswer(sheet, i, answer) ==
  [k \in 1..(IF i + 1 > Len(sheet) THEN i + 1 ELSE Len(sheet)) |->
     IF k = i + 1 THEN answer ELSE At(sheet, k - 1)]

\* Completions the component's generate calls can get.
QuizArrays == {[i \in 1..n |-> GoodQuestion(i)] : n \in 0..MaxQ} \cup {<<NoCorrectAnswer(1)>>}
QuizTexts ==
  {<<Junk>>, <<Doc(JObject([other |-> 1]))>>}
  \cup {<<Fence, JsonTag, NL, Doc(JObject([questions |-> a])), NL, Fence>> : a \in QuizArrays}

\* startQuiz: await generateQuizFn(); (then) setQuizStarted(true)
StartQuiz ==
  /\ Screen = "start"
  /\ genFetch' = FetchStart(genFetch)
  /\ genPending' = Append(genPending, "startQuiz")
  /\ toasts' = <<>>
  /\ attemptSaved' = 0
  /\ UNCHANGED <<currentQuestion, answers, showExplanation, quizStarted, saveFetch,
                 savePending>>
  /\ UNCHANGED <<serverVars, platformVars>>

\* A generateQuizFn call completes: the server action runs, useFetch stores
\* the outcome, the awaiting startQuiz resumes, and the quizData effect runs.
GenerateQuizDone ==
  \E k \in 1..Len(genPending), identity \in Identities :
  \E ai \in CompletionOutcomes(identity, {AIFail, AIText(genText)}) :
  \E out \in {generateQuiz(identity, ai)} :
    /\ genPending' = [i \in 1..(Len(genPending) - 1) |->
                        IF i < k THEN genPending[i] ELSE genPending[i + 1]]
    /\ genFetch' = IF out.status = "ok" THEN FetchResolved(genFetch, out.value)
                   ELSE FetchRejected(genFetch, out.error)
    /\ toasts' = IF out.status = "ok" THEN <<>> ELSE <<[kind |-> "error", text |-> out.error]>>
    /\ quizStarted' = IF genPending[k] = "startQuiz" THEN TRUE ELSE quizStarted
    /\ answers' = AnswersAfterEffect(genFetch'.data,
                                     out.status = "ok" /\ (Truthy(out.value) \/ Truthy(quizData)))
    /\ UNCHANGED <<currentQuestion, showExplanation, saveFetch, savePending, attemptSaved>>
    /\ UNCHANGED <<serverVars, platformVars>>

\* handleAnswer, from the radio group of the question shown
HandleAnswer ==
  /\ Screen = "question"
  /\ LET options == Field(quizData.arr[currentQuestion + 1], "options")
     IN \E k \in Picked :
          /\ k <= Len(options)
          /\ answers' = SetAnswer(answers, currentQuestion, options[k])
  /\ toasts' = <<>>
  /\ UNCHANGED <<currentQuestion, showExplanation, quizStarted, genFetch, saveFetch,
                 genPending, savePending, attemptSaved>>
  /\ UNCHANGED <<serverVars, platformVars>>

\* The Show Explanation button: disabled={!answers[currentQuestion]}
ShowExplanation ==
  /\ Screen = "question"
  /\ ~showExplanation
  /\ Answered(currentQuestion)
  /\ showExplanation' = TRUE
  /\ toasts' = <<>>
  /\ UNCHANGED <<currentQuestion, answers, quizStarted, genFetch, saveFetch,
                 genPending, savePending, attemptSaved>>
  /\ UNCHANGED <<serverVars, platformVars>>

\* handleNext below the last question
NextQuestion ==
  /\ Screen = "question"
  /\ NextEnabled
  /\ currentQuestion < Len(quizData.arr) - 1
  /\ currentQuestion' = currentQuestion + 1
  /\ showExplanation' = FALSE
  /\ toasts' = <<>>
  /\ UNCHANGED <<answers, quizStarted, genFetch, saveFetch, genPending, savePending,
                 attemptSaved>>
  /\ UNCHANGED <<serverVars, platformVars>>

\* handleNext at the last question: finishQuiz up to its await
FinishQuiz ==
  /\ Screen = "question"
  /\ NextEnabled
  /\ ~(currentQuestion < Len(quizData.arr) - 1)
  /\ Len(assessments) + Len(savePending) < MaxSaved
  /\ Len(answers) <= Len(quizData.arr)
  /\ saveFetch' = FetchStart(saveFetch)
  /\ savePending' = Append(savePending,
                           [questions |-> quizData.arr, answers |-> answers,
                            score |-> calculateScore(quizData.arr, answers)])
  /\ toasts' = <<>>
  /\ UNCHANGED <<currentQuestion, answers, showExplanation, quizStarted, genFetch,
                 genPending, attemptSaved>>
  /\ UNCHANGED <<serverVars, platformVars>>

\* A saveQuizResultFn call completes: the server action runs, useFetch stores
\* the outcome, and finishQuiz resumes with toast.success.
SaveQuizResultDone ==
  \E k \in 1..Len(savePending), identity \in Identities :
  \E ai \in CompletionOutcomes(identity, AIOutcomes), dbOk \in StoreOutcomes(identity) :
  \E out \in {saveQuizResult(variant, identity, savePending[k].questions,
                             savePending[k].answers, savePending[k].score, ai, dbOk)} :
    /\ savePending' = [i \in 1..(Len(savePending) - 1) |->
                         IF i < k THEN savePending[i] ELSE savePending[i + 1]]
    /\ assessments' = assessments \o out.created
    /\ attemptSaved' = attemptSaved + Len(out.created)
    /\ saveFetch' = IF out.status = "ok" THEN FetchResolved(saveFetch, Rec(out.created[1]))
                    ELSE FetchRejected(saveFetch, out.error)
    /\ toasts' = (IF out.status = "ok" THEN <<>>
                  ELSE <<[kind |-> "error", text |-> out.error]>>)
                 \o <<[kind |-> "success", text |-> "Quiz completed!"]>>
    /\ UNCHANGED <<currentQuestion, answers, showExplanation, quizStarted, genFetch,
                   genPending>>
    /\ UNCHANGED <<variant, reqQuestions, reqAnswers, reqScore, genText, ret>>
    /\ UNCHANGED platformVars

\* startNewQuiz, from the result screen
StartNewQuiz ==
  /\ Screen = "result"
  /\ currentQuestion' = 0
  /\ answers' = <<>>
  /\ showExplanation' = FALSE
  /\ genFetch' = FetchStart(genFetch)
  /\ genPending' = Append(genPending, "startNewQuiz")
  /\ saveFetch' = [saveFetch EXCEPT !.data = NullData]
  /\ toasts' = <<>>
  /\ attemptSaved' = 0
  /\ UNCHANGED <<quizStarted, savePending>>
  /\ UNCHANGED <<serverVars, platformVars>>

QuizServerInit ==
  /\ variant \in Variants
  /\ reqQuestions = DefaultQuestions
  /\ reqAnswers = <<"A">>
  /\ reqScore = Int2Num(100)
  /\ genText \in QuizTexts
  /\ assessments = <<>>
  /\ ret = [op |-> "none"]
InitQuiz == QuizServerInit /\ QuizInit /\ PlatformIdle
NextQuiz ==
  \/ StartQuiz \/ GenerateQuizDone \/ HandleAnswer \/ ShowExplanation
  \/ NextQuestion \/ FinishQuiz \/ SaveQuizResultDone \/ StartNewQuiz
SpecQuiz == InitQuiz /\ [][NextQuiz]_vars

\* ------------------------------------------------------------------------
\* Claims about the Quiz component
\* ------------------------------------------------------------------------
\* A generateQuizFn call completes in this step, with an error.
GenerateFailsNow ==
  /\ genFetch.loading = "true" /\ genFetch'.loading = "false"
  /\ genFetch'.error # Null

\* C5: when the generate call made by startQuiz fails, quizStarted stays
\* false (the component does not enter the in-progress state).
C5_FailedGenerateLeavesQuizNotStarted ==
  [][(GenerateFailsNow /\ ~quizStarted) => ~quizStarted']_vars

\* C6: while the question shown is unanswered no step advances or finishes
\* the quiz: the index keeps its value, the quiz stays in progress on the
\* question screen, and no save is started and no record is created.
C6_NoAdvanceWhileUnanswered ==
  [][(Screen = "question" /\ ~Answered(currentQuestion)) =>
       /\ currentQuestion' = currentQuestion
       /\ quizStarted' = quizStarted
       /\ Screen' = "question"
       /\ savePending' = savePending
       /\ saveFetch' = saveFetch
       /\ assessments' = assessments]_vars
C6_Witness ==
  /\ Screen = "question" /\ currentQuestion = 1 /\ ~Answered(currentQuestion)
  /\ Answered(0)

\* C7: a quiz attempt creates at most one assessment record, exactly one once
\* its result is shown, and no step of the quiz flow changes or removes a
\* record that exists: the table only grows, by one record at its end.
C7_OneRecordPerCompletedQuiz ==
  /\ [](attemptSaved <= 1 /\ (Screen = "result" => attemptSaved = 1))
  /\ [][\/ assessments' = assessments
        \/ /\ Len(assessments') = Len(assessments) + 1
           /\ SubSeq(assessments', 1, Len(assessments)) = assessments]_vars
C7_Witness == Screen = "result" /\ Len(assessments) = 2 /\ attemptSaved = 1

\* A saveQuizResultFn call completes in this step, with an error.
SaveFailsNow ==
  /\ Len(savePending') < Len(savePending)
  /\ saveFetch'.error # Null
\* The Finish button can be clicked: the last question is shown, answered,
\* and no save is in flight.
FinishEnabled ==
  /\ Screen = "question"
  /\ NextEnabled
  /\ ~(currentQuestion < Len(quizData.arr) - 1)
\* What finishQuiz passes to saveQuizResultFn in the current state.
FinishRequest ==
  [questions |-> quizData.arr, answers |-> answers,
   score |-> calculateScore(quizData.arr, answers)]

\* C11: a failed save leaves the question set, the answer sheet and the
\* current index as they were and the Finish button usable again; finishQuiz
\* always sends the current questions, answers and their score, so the retry
\* repeats the failed request unless the user changed an answer meanwhile.
C11_FailedSaveCanBeRetried ==
  /\ [][SaveFailsNow =>
          /\ genFetch' = genFetch
          /\ answers' = answers
          /\ currentQuestion' = currentQuestion
          /\ assessments' = assessments
          /\ FinishEnabled'
          /\ \A k \in 1..Len(savePending) :
                savePending[k].answers = answers => savePending[k] = FinishRequest']_vars
  /\ [][Len(savePending') > Len(savePending) =>
          savePending' = Append(savePending, FinishRequest)]_vars
C11_Witness ==
  /\ saveFetch.error # Null /\ savePending = <<>> /\ FinishEnabled
  /\ Len(quizData.arr) = 2 /\ assessments = <<>>

\* C12: at most one generateQuizFn call and at most one saveQuizResultFn call
\* is in flight at any time; while one is pending the component offers no
\* way to start another.
C12_OneRequestInFlight ==
  /\ Len(genPending) <= 1
  /\ Len(savePending) <= 1
  /\ (genPending # <<>> => generatingQuiz /\ Screen = "loader")
  /\ (savePending # <<>> => savingResult /\ ~NextEnabled)
C12_Witness ==
  /\ Len(savePending) = 1 /\ Len(assessments) = 1 /\ savingResult
  /\ Screen = "question"

\* C13: the result screen is left only by starting a new session (the loader
\* follows), and whenever a question is presented after the loader the
\* question set was generated by the call that just completed and the answer
\* sheet is fresh: one unanswered slot per question.
C13_CompletedSessionIsSingleUse ==
  [][/\ Screen = "result" => Screen' \in {"result", "loader"}
     /\ (Screen = "loader" /\ Screen' = "question") =>
          /\ genFetch'.error = Null
          /\ answers' = [i \in 1..Len(quizData'.arr) |-> Null]]_vars

\* C14: whenever a question is presented the answer sheet has one slot per
\* question of the question set, and when a session starts (the first
\* question appears after the loader) every slot is unanswered.
C14_SheetMatchesQuestionSet ==
  /\ [](Screen = "question" => Len(answers) = Len(quizData.arr))
  /\ [][(Screen = "loader" /\ Screen' = "question") =>
          \A i \in 0..(Len(quizData'.arr) - 1) : At(answers', i) = Null]_vars

\* The quiz is in progress: started, not loading, no result shown.
InProgress == quizStarted /\ ~generatingQuiz /\ ~Truthy(resultData)
\* N, the number of questions of the question set (none if there is no set)
NumQuestions == IF Truthy(quizData) THEN Len(quizData.arr) ELSE 0
\* An advance below the last index: the index grows by one, no save starts.
AdvanceBelowLast ==
  (InProgress /\ currentQuestion' # currentQuestion) =>
     /\ currentQuestion < NumQuestions - 1
     /\ currentQuestion' = currentQuestion + 1
     /\ savePending' = savePending /\ assessments' = assessments
\* A save starts only by an advance at the last index, which stays.
SaveOnlyAtLast ==
  Len(savePending') > Len(savePending) =>
     /\ InProgress /\ currentQuestion = NumQuestions - 1
     /\ currentQuestion' = currentQuestion
     /\ savePending' = Append(savePending, FinishRequest)

\* C20: while a quiz is in progress the current index lies in 0..N-1; an
\* advance below N-1 adds exactly 1 and starts no save; a save (with the
\* score) starts only by an advance at N-1, which leaves the index unchanged.
C20_IndexInRangeAndAdvance ==
  /\ [](InProgress => currentQuestion \in 0..(NumQuestions - 1))
  /\ [][AdvanceBelowLast /\ SaveOnlyAtLast]_vars

\* The step raises the notification "Quiz completed!".
SuccessToastNow ==
  \E k \in 1..Len(toasts') : toasts'[k] = [kind |-> "success", text |-> "Quiz completed!"]
\* C23: "Quiz completed!" is raised only by a finish whose save succeeded
\* and created an assessment record; a failed save raises no success
\* notification and shows no result screen.
C23_SuccessToastOnlyAfterSave ==
  /\ [][SuccessToastNow =>
          /\ saveFetch'.error = Null
          /\ Len(assessments') = Len(assessments) + 1]_vars
  /\ [][SaveFailsNow => (~SuccessToastNow /\ Screen' # "result")]_vars

\* ------------------------------------------------------------------------
\* The useFetch hook alone: fn invoked freely, callbacks settling in any order
\* ------------------------------------------------------------------------
\* Most fn invocations in flight at once.
MaxInFlight == 2
\* What the callback of an invocation will do: resolve with a response or
\* reject with an error.
Responses == {Undef, NullData, Arr(<<>>)}
Rejections == {"Unauthorized", "Failed"}
Settlements ==
  {[settle |-> "resolve", response |-> r] : r \in Responses}
  \cup {[settle |-> "reject", message |-> e] : e \in Rejections}
WithoutAt(seq, k) ==
  [i \in 1..(Len(seq) - 1) |-> IF i < k THEN seq[i] ELSE seq[i + 1]]

\* fn(...args) up to the await: setLoading(true); setError(null); cb(...args)
fnInvoke ==
  /\ Len(genPending) < MaxInFlight
  /\ \E s \in Settlements : genPending' = Append(genPending, s)
  /\ genFetch' = FetchStart(genFetch)
  /\ toasts' = <<>>
  /\ UNCHANGED <<currentQuestion, answers, showExplanation, quizStarted, saveFetch,
                 savePending, attemptSaved>>
  /\ UNCHANGED <<serverVars, platformVars>>

\* fn after the await, callback resolved: the try block and the finally block
fnResolved ==
  \E k \in 1..Len(genPending) :
    /\ genPending[k].settle = "resolve"
    /\ genPending' = WithoutAt(genPending, k)
    /\ genFetch' = FetchResolved(genFetch, genPending[k].response)
    /\ toasts' = <<>>
    /\ UNCHANGED <<currentQuestion, answers, showExplanation, quizStarted, saveFetch,
                   savePending, attemptSaved>>
    /\ UNCHANGED <<serverVars, platformVars>>

\* fn after the await, callback rejected: the catch block and the finally block
fnRejected ==
  \E k \in 1..Len(genPending) :
    /\ genPending[k].settle = "reject"
    /\ genPending' = WithoutAt(genPending, k)
    /\ genFetch' = FetchRejected(genFetch, genPending[k].message)
    /\ toasts' = <<[kind |-> "error", text |-> genPending[k].message]>>
    /\ UNCHANGED <<currentQuestion, answers, showExplanation, quizStarted, saveFetch,
                   savePending, attemptSaved>>
    /\ UNCHANGED <<serverVars, platformVars>>

InitHook == HistoryInit /\ QuizInit /\ PlatformIdle
NextHook == fnInvoke \/ fnResolved \/ fnRejected
SpecHook == InitHook /\ [][NextHook]_vars

\* The step is the completion of an invocation whose callback rejected.
FailedInvocationNow ==
  /\ Len(genPending') < Len(genPending)
  /\ toasts' # <<>>
\* C24: for every interleaving of fn invocations and completions, loading is
\* true while an invocation is in flight and not true when none is; a failed
\* invocation sets error, leaves data unchanged and sets loading to false.
C24_LoadingTracksInFlight ==
  /\ [](Len(genPending) > 0 <=> genFetch.loading = "true")
  /\ [][FailedInvocationNow =>
          /\ genFetch'.error = toasts'[1].text
          /\ genFetch'.data = genFetch.data
          /\ genFetch'.loading = "false"]_vars

\* ------------------------------------------------------------------------
\* Users and industry insights: server calls that share the two tables
\* ------------------------------------------------------------------------
\* Most server calls made in one behaviour (they may all be in flight at once).
MaxCalls == 2
\* 7 * 24 * 60 * 60 * 1000 milliseconds
Week == 604800000
Industries == {"tech", "finance"}
\* The server's quiz state while only the user and insight calls run.
ServerIdle ==
  /\ variant = "part_000"
  /\ reqQuestions = DefaultQuestions
  /\ reqAnswers = <<"A">>
  /\ reqScore = Int2Num(100)
  /\ genText = DefaultText
  /\ assessments = <<>>
  /\ ret = [op |-> "none"]

\* db.user.findUnique({ where: { clerkUserId } }): the row's position, 0 for null
HasUser(userTable, id) == \E i \in 1..Len(userTable) : userTable[i].clerkUserId = id
FindUser(userTable, id) ==
  IF HasUser(userTable, id)
  THEN CHOOSE i \in 1..Len(userTable) : userTable[i].clerkUserId = id
  ELSE 0
\* db.industryInsight.findUnique({ where: { industry } })
HasInsight(insightTable, industry) ==
  \E i \in 1..Len(insightTable) : insightTable[i].industry = industry
FindInsight(insightTable, industry) ==
  IF HasInsight(insightTable, industry)
  THEN insightTable[CHOOSE i \in 1..Len(insightTable) : insightTable[i].industry = industry]
  ELSE Null
\* The row industryInsight.create writes for a call p at time t: nextUpdate is
\* Date.now() + 7 days; by and updatedBy record which calls wrote the row.
NewInsight(industry, p, t) ==
  [industry |-> industry, by |-> p, lastUpdated |-> t, nextRead |-> t,
   nextUpdate |-> t + Week, updatedBy |-> <<>>]
\* industryInsight.create: industry is the key findUnique looks rows up by,
\* so a second row for an industry is refused with P2002.
createInsight(insightTable, industry, p, t, dbOk) ==
  IF ~dbOk THEN [code |-> "P1001", table |-> insightTable]
  ELSE IF HasInsight(insightTable, industry) THEN [code |-> "P2002", table |-> insightTable]
  ELSE [code |-> Null, table |-> Append(insightTable, NewInsight(industry, p, t))]

\* A server call: its arguments, where it stands, what it holds and how it ended.
NewCall(op, identity) ==
  [op |-> op, identity |-> identity, pc |-> "begin", status |-> "running",
   value |-> Undef, code |-> Null, error |-> Null, industry |-> Null,
   user |-> 0, txInsight |-> FALSE, txUser |-> FALSE, wrote |-> FALSE,
   completions |-> 0, list |-> <<>>, idx |-> 1]
CallReturned(c, v) == [c EXCEPT !.pc = "done", !.status = "ok", !.value = v]
CallThrew(c, code, message) ==
  [c EXCEPT !.pc = "done", !.status = "failed", !.code = code, !.error = message]
\* generateAIInsights: the completion call, fence cleaning and JSON.parse
\* either give the insights or throw.
AIInsightOutcomes == {"insights", "throws"}

\* getIndustryInsights up to the completion call
getIndustryInsightsBegin(identity, userTable, insightTable) ==
  LET c == NewCall("getIndustryInsights", identity) IN
  IF identity = Null THEN CallThrew(c, Null, "Unauthorized")
  ELSE IF ~HasUser(userTable, identity) THEN CallThrew(c, Null, "User not found")
  ELSE LET user == userTable[FindUser(userTable, identity)] IN
       IF HasInsight(insightTable, user.industry)
       THEN CallReturned(c, Rec(FindInsight(insightTable, user.industry)))
       ELSE [c EXCEPT !.pc = "generate", !.industry = user.industry]
\* getIndustryInsights after generateAIInsights: db.industryInsight.create
getIndustryInsightsCreate(c, p, insightTable, t, dbOk) ==
  LET out == createInsight(insightTable, c.industry, p, t, dbOk) IN
  [call |-> IF out.code = Null
            THEN CallReturned(c, Rec(out.table[Len(out.table)]))
            ELSE CallThrew(c, out.code, "create failed"),
   insights |-> out.table]

\* updateUser's catch block; the transaction has rolled back what the call
\* wrote through tx.
updateUserCatch(c, code, message) ==
  [c EXCEPT !.pc = "done", !.status = "failed", !.code = code,
            !.error = <<"Failed to update profile: ",
                        IF code = "P2002" THEN "Duplicate entry found"
                        ELSE IF code = "P2025" THEN "Missing relation found"
                        ELSE message>>,
            !.txInsight = FALSE, !.txUser = FALSE]
\* updateUser up to db.$transaction
updateUserBegin(identity, industry, userTable) ==
  LET c == [NewCall("updateUser", identity) EXCEPT !.industry = industry] IN
  IF identity = Null THEN CallThrew(c, Null, "Unauthorized")
  ELSE IF ~HasUser(userTable, identity) THEN CallThrew(c, Null, "User not found")
  ELSE [c EXCEPT !.pc = "txFind", !.user = FindUser(userTable, identity)]
\* tx.industryInsight.findUnique and the test of its result
updateUserTxFind(c, insightTable) ==
  [c EXCEPT !.pc = IF HasInsight(insightTable, c.industry) THEN "update" ELSE "generate"]
\* tx.industryInsight.create: the row is written inside the transaction
updateUserTxCreate(c, insightTable, dbOk) ==
  LET out == createInsight(insightTable, c.industry, 0, 0, dbOk) IN
  IF out.code = Null
  THEN [c EXCEPT !.pc = "update", !.txInsight = TRUE, !.wrote = TRUE]
  ELSE updateUserCatch(c, out.code, "create failed")
\* (for C26: the profile written through db instead of tx)
dbUserUpdate(c, p, userTable, dbOk) ==
  IF dbOk
  THEN [call |-> [c EXCEPT !.pc = "commit", !.wrote = TRUE],
        users |-> [userTable EXCEPT ![c.user].industry = c.industry, ![c.user].by = p]]
  ELSE [call |-> updateUserCatch(c, "P1001", "update failed"), users |-> userTable]
\* tx.user.update: the profile is written inside the transaction
updateUserTxUpdate(c, p, userTable, dbOk) ==
  IF dbOk
  THEN [call |-> [c EXCEPT !.pc = "commit", !.txUser = TRUE, !.wrote = TRUE],
        users |-> userTable]
  ELSE [call |-> updateUserCatch(c, "P1001", "update failed"), users |-> userTable]
\* The callback returns, the transaction commits what was written through tx;
\* revalidatePath("/"); return result.updatedUser
updateUserCommit(c, p, userTable, insightTable, t) ==
  LET newUsers == IF c.txUser
                  THEN [userTable EXCEPT ![c.user].industry = c.industry, ![c.user].by = p]
                  ELSE userTable
      newInsights == IF c.txInsight
                     THEN Append(insightTable, NewInsight(c.industry, p, t))
                     ELSE insightTable
  IN [call |-> [CallReturned(c, Rec(newUsers[c.user])) EXCEPT !.txInsight = FALSE, !.txUser = FALSE],
      users |-> newUsers, insights |-> newInsights]

\* An insert waits while a transaction of another call holds an uncommitted
\* row for the same industry.
InsertPending(p) ==
  \E q \in 1..Len(calls) :
    q # p /\ calls[q].txInsight /\ calls[q].industry = calls[p].industry

GetIndustryInsightsBegin ==
  /\ Len(calls) < MaxCalls
  /\ \E identity \in Callers :
       calls' = Append(calls, getIndustryInsightsBegin(identity, users, insights))
  /\ UNCHANGED <<users, insights, now>>
  /\ UNCHANGED <<serverVars, quizVars>>

\* generateAIInsights settles for a call that awaits it (either action, or the job)
GenerateAIInsightsDone ==
  \E p \in 1..Len(calls), ai \in AIInsightOutcomes :
    /\ calls[p].pc = "generate"
    /\ LET c == [calls[p] EXCEPT !.completions = @ + 1] IN
       calls' = [calls EXCEPT ![p] =
                   IF ai = "insights"
                   THEN [c EXCEPT !.pc = IF c.op = "job" THEN "store" ELSE "create"]
                   ELSE IF c.op = "updateUser" THEN updateUserCatch(c, Null, "completion failed")
                   ELSE CallThrew(c, Null, "completion failed")]
    /\ UNCHANGED <<users, insights, now>>
    /\ UNCHANGED <<serverVars, quizVars>>

GetIndustryInsightsCreate ==
  \E p \in 1..Len(calls), dbOk \in BOOLEAN :
    /\ calls[p].op = "getIndustryInsights"
    /\ calls[p].pc = "create"
    /\ ~InsertPending(p)
    /\ \E out \in {getIndustryInsightsCreate(calls[p], p, insights, now, dbOk)} :
         /\ calls' = [calls EXCEPT ![p] = out.call]
         /\ insights' = out.insights
    /\ UNCHANGED <<users, now>>
    /\ UNCHANGED <<serverVars, quizVars>>

UpdateUserBegin ==
  /\ Len(calls) < MaxCalls
  /\ \E identity \in Callers, industry \in Industries :
       calls' = Append(calls, updateUserBegin(identity, industry, users))
  /\ UNCHANGED <<users, insights, now>>
  /\ UNCHANGED <<serverVars, quizVars>>

UpdateUserTxFind ==
  \E p \in 1..Len(calls) :
    /\ calls[p].pc = "txFind"
    /\ calls' = [calls EXCEPT ![p] = updateUserTxFind(calls[p], insights)]
    /\ UNCHANGED <<users, insights, now>>
    /\ UNCHANGED <<serverVars, quizVars>>

UpdateUserTxCreate ==
  \E p \in 1..Len(calls), dbOk \in BOOLEAN :
    /\ calls[p].op = "updateUser"
    /\ calls[p].pc = "create"
    /\ ~InsertPending(p)
    /\ calls' = [calls EXCEPT ![p] = updateUserTxCreate(calls[p], insights, dbOk)]
    /\ UNCHANGED <<users, insights, now>>
    /\ UNCHANGED <<serverVars, quizVars>>

UpdateUserTxUpdate ==
  \E p \in 1..Len(calls), dbOk \in BOOLEAN :
    /\ calls[p].op = "updateUser"
    /\ calls[p].pc = "update"
    /\ \E out \in {updateUserTxUpdate(calls[p], p, users, dbOk)} :
         /\ calls' = [calls EXCEPT ![p] = out.call]
         /\ users' = out.users
    /\ UNCHANGED <<insights, now>>
    /\ UNCHANGED <<serverVars, quizVars>>

UpdateUserCommit ==
  \E p \in 1..Len(calls) :
    /\ calls[p].pc = "commit"
    /\ \E out \in {updateUserCommit(calls[p], p, users, insights, now)} :
         /\ calls' = [calls EXCEPT ![p] = out.call]
         /\ users' = out.users
         /\ insights' = out.insights
    /\ UNCHANGED now
    /\ UNCHANGED <<serverVars, quizVars>>

\* { timeout: 10000 }: the transaction expires while the callback is running
UpdateUserTimeout ==
  \E p \in 1..Len(calls) :
    /\ calls[p].op = "updateUser"
    /\ calls[p].pc \in {"txFind", "generate", "create", "update", "commit"}
    /\ calls' = [calls EXCEPT ![p] = updateUserCatch(calls[p], "P2028", "transaction expired")]
    /\ UNCHANGED <<users, insights, now>>
    /\ UNCHANGED <<serverVars, quizVars>>

\* Two onboarded users; the insight record of an industry may be missing.
InsightsInit ==
  /\ \E i1 \in Industries :
       users = <<[clerkUserId |-> "u1", industry |-> i1, by |-> 0],
                 [clerkUserId |-> "u2", industry |-> "finance", by |-> 0]>>
  /\ insights \in {<<>>, <<NewInsight("finance", 0, 0)>>}
  /\ calls = <<>>
  /\ now = 0
InitInsights == ServerIdle /\ QuizInit /\ InsightsInit
NextInsights ==
  \/ GetIndustryInsightsBegin \/ GenerateAIInsightsDone \/ GetIndustryInsightsCreate
  \/ UpdateUserBegin \/ UpdateUserTxFind \/ UpdateUserTxCreate \/ UpdateUserTxUpdate
  \/ UpdateUserCommit \/ UpdateUserTimeout
SpecInsights == InitInsights /\ [][NextInsights]_vars

\* The insight rows of an industry.
InsightRows(industry) == {i \in 1..Len(insights) : insights[i].industry = industry}
InsightCalls == {p \in 1..Len(calls) : calls[p].op \in {"getIndustryInsights", "updateUser"}}
\* C25: under any interleaving of getIndustryInsights and updateUser calls
\* there is at most one insight record per industry, a call that finds the
\* record makes no completion call, and no call fails because another call
\* created the record first.
C25_InsightCreatedOnceNobodyFails ==
  /\ \A industry \in Industries : Cardinality(InsightRows(industry)) <= 1
  /\ \A p \in InsightCalls :
       /\ (calls[p].status = "ok" /\ ~(\E i \in 1..Len(insights) : insights[i].by = p))
             => calls[p].completions = 0
       /\ calls[p].code # "P2002"

\* The rows a call has written that are visible in the tables.
WrittenBy(p) ==
  {<<"insight", i>> : i \in {j \in 1..Len(insights) : insights[j].by = p}}
  \cup {<<"user", i>> : i \in {j \in 1..Len(users) : users[j].by = p}}
UpdateUserCalls == {p \in 1..Len(calls) : calls[p].op = "updateUser"}
\* The step on which call p returns successfully.
SucceedsNow(p) ==
  /\ p <= Len(calls')
  /\ calls'[p].status = "ok"
  /\ (p > Len(calls) \/ calls[p].status # "ok")
SignedIn == {Null} \cup Users
\* db.user.create: clerkUserId is the key findUnique looks rows up by, so a
\* second row for an identity is refused with P2002.
createUser(userTable, id, p) ==
  IF HasUser(userTable, id) THEN [code |-> "P2002", table |-> userTable]
  ELSE [code |-> Null,
        table |-> Append(userTable, [clerkUserId |-> id, industry |-> Null, by |-> p])]
\* checkUser up to db.user.create
checkUserBegin(identity, userTable) ==
  LET c == NewCall("checkUser", identity) IN
  IF identity = Null THEN CallReturned(c, NullData)
  ELSE IF HasUser(userTable, identity)
       THEN CallReturned(c, Rec(userTable[FindUser(userTable, identity)]))
       ELSE [c EXCEPT !.pc = "create"]
\* db.user.create and return newUser; the catch block logs the error and the
\* function returns undefined
checkUserCreate(c, p, userTable) ==
  LET out == createUser(userTable, c.identity, p) IN
  [call |-> IF out.code = Null
            THEN CallReturned(c, Rec(out.table[Len(out.table)]))
            ELSE [CallReturned(c, Undef) EXCEPT !.code = out.code],
   users |-> out.table]

CheckUserBegin ==
  /\ Len(calls) < MaxCalls
  /\ \E identity \in SignedIn : calls' = Append(calls, checkUserBegin(identity, users))
  /\ UNCHANGED <<users, insights, now>>
  /\ UNCHANGED <<serverVars, quizVars>>

CheckUserCreate ==
  \E p \in 1..Len(calls) :
    /\ calls[p].op = "checkUser"
    /\ calls[p].pc = "create"
    /\ \E out \in {checkUserCreate(calls[p], p, users)} :
         /\ calls' = [calls EXCEPT ![p] = out.call]
         /\ users' = out.users
    /\ UNCHANGED <<insights, now>>
    /\ UNCHANGED <<serverVars, quizVars>>

\* Nobody has a row yet, or one of the users has.
CheckUserInit ==
  /\ users \in {<<>>} \cup {<<[clerkUserId |-> id, industry |-> i, by |-> 0]>> :
                              id \in Users, i \in Industries}
  /\ insights = <<>>
  /\ calls = <<>>
  /\ now = 0
InitCheckUser == ServerIdle /\ QuizInit /\ CheckUserInit
NextCheckUser == CheckUserBegin \/ CheckUserCreate
SpecCheckUser == InitCheckUser /\ [][NextCheckUser]_vars

CallsOf(id) == {p \in 1..Len(calls) : calls[p].op = "checkUser" /\ calls[p].identity = id}
UserRows(id) == {i \in 1..Len(users) : users[i].clerkUserId = id}
\* C28: once the checkUser calls of an identity have returned there is exactly
\* one user record with that identity and every call returned it; a call with
\* nobody signed in returns null and creates nothing.
C28_CheckUserGetOrCreate ==
  /\ \A id \in Users :
       (CallsOf(id) # {} /\ \A p \in CallsOf(id) : calls[p].pc = "done") =>
          /\ Cardinality(UserRows(id)) = 1
          /\ \A p \in CallsOf(id) : calls[p].value = Rec(users[FindUser(users, id)])
  /\ \A p \in CallsOf(Null) :
       /\ calls[p].value = NullData
       /\ ~(\E i \in 1..Len(users) : users[i].by = p)

\* ------------------------------------------------------------------------
\* The weekly generateIndustryInsights job
\* ------------------------------------------------------------------------
\* step "Fetch industries": findMany({ select: { industry: true } })
jobFetch(insightTable) ==
  LET list == [i \in 1..Len(insightTable) |-> insightTable[i].industry] IN
  IF list = <<>> THEN [CallReturned(NewCall("job", Null), Undef) EXCEPT !.list = list]
  ELSE [NewCall("job", Null) EXCEPT !.list = list, !.pc = "generate"]
\* (for C27: the update with its where clause dropped)
updateInsightEvery(insightTable, industry, p, t1, t2) ==
  [i \in 1..Len(insightTable) |->
     [insightTable[i] EXCEPT !.lastUpdated = t1, !.nextRead = t2,
                             !.nextUpdate = t2 + Week, !.updatedBy = Append(@, p)]]
\* industryInsight.update({ where: { industry }, data: { ...insights,
\* lastUpdated: new Date(), nextUpdate: new Date(Date.now() + 7 days) } }):
\* t1 and t2 are the two readings of the clock.
updateInsight(insightTable, industry, p, t1, t2) ==
  [i \in 1..Len(insightTable) |->
     IF insightTable[i].industry = industry
     THEN [insightTable[i] EXCEPT !.lastUpdated = t1, !.nextRead = t2,
                                  !.nextUpdate = t2 + Week, !.updatedBy = Append(@, p)]
     ELSE insightTable[i]]
\* step "Update <industry> insights", then the next turn of the loop
jobUpdate(c, p, insightTable, t1, t2, dbOk) ==
  LET industry == c.list[c.idx] IN
  IF ~dbOk THEN [call |-> CallThrew(c, "P1001", "update failed"), insights |-> insightTable]
  ELSE IF ~HasInsight(insightTable, industry)
  THEN [call |-> CallThrew(c, "P2025", "update failed"), insights |-> insightTable]
  ELSE [call |-> IF c.idx = Len(c.list)
                 THEN [CallReturned(c, Undef) EXCEPT !.idx = c.idx + 1]
                 ELSE [c EXCEPT !.idx = c.idx + 1, !.pc = "generate"],
        insights |-> updateInsight(insightTable, industry, p, t1, t2)]

JobFetch ==
  /\ Len(calls) < MaxCalls
  /\ calls' = Append(calls, jobFetch(insights))
  /\ UNCHANGED <<users, insights, now>>
  /\ UNCHANGED <<serverVars, quizVars>>

\* The clock may advance between new Date() and Date.now().
JobUpdate ==
  \E p \in 1..Len(calls), dbOk \in BOOLEAN, t2 \in {now, now + 1} :
    /\ calls[p].op = "job"
    /\ calls[p].pc = "store"
    /\ \E out \in {jobUpdate(calls[p], p, insights, now, t2, dbOk)} :
         /\ calls' = [calls EXCEPT ![p] = out.call]
         /\ insights' = out.insights
         /\ now' = IF out.call.status = "failed" THEN now ELSE t2
    /\ UNCHANGED users
    /\ UNCHANGED <<serverVars, quizVars>>

\* Some industries have a record; the industry of user u1 may have none yet.
JobInit ==
  /\ \E i1 \in Industries :
       users = <<[clerkUserId |-> "u1", industry |-> i1, by |-> 0]>>
  /\ insights \in {<<NewInsight("finance", 0, 0)>>,
                   <<NewInsight("tech", 0, 0), NewInsight("finance", 0, 0)>>}
  /\ calls = <<>>
  /\ now = 0
InitJob == ServerIdle /\ QuizInit /\ JobInit
NextJob ==
  \/ JobFetch \/ GenerateAIInsightsDone \/ JobUpdate
  \/ GetIndustryInsightsBegin \/ GetIndustryInsightsCreate
SpecJob == InitJob /\ [][NextJob]_vars

JobCalls == {p \in 1..Len(calls) : calls[p].op = "job"}
TimesUpdatedBy(p, row) == Cardinality({k \in 1..Len(row.updatedBy) : row.updatedBy[k] = p})
\* A run has updated once each listed record before its position in the
\* list, and no other record; a run that returned is past the end of its list.
JobProgress ==
  \A p \in JobCalls :
    LET c == calls[p] IN
    /\ \A k \in 1..Len(c.list) :
         /\ HasInsight(insights, c.list[k])
         /\ TimesUpdatedBy(p, FindInsight(insights, c.list[k])) = IF k < c.idx THEN 1 ELSE 0
    /\ \A i \in 1..Len(insights) :
         (\A k \in 1..Len(c.list) : c.list[k] # insights[i].industry)
            => TimesUpdatedBy(p, insights[i]) = 0
    /\ c.status = "ok" => c.idx = Len(c.list) + 1
    /\ c.status = "failed" => c.idx <= Len(c.list)
\* The step belongs to a run of the job.
JobStepNow ==
  \E p \in 1..Len(calls') :
    calls'[p].op = "job" /\ (p > Len(calls) \/ calls'[p] # calls[p])
IndustriesOf(insightTable) == [i \in 1..Len(insightTable) |-> insightTable[i].industry]
UpdatedRows == {i \in 1..Len(insights) : insights[i].updatedBy # <<>>}
\* C27: a run of the job updates each record it listed exactly once, with
\* nextUpdate 7 days after its lastUpdated, never creates or deletes a
\* record, and on a failure leaves the records before the failing one updated
\* and the others untouched.
C27_JobUpdatesEachOnceWeekAfterLastUpdated ==
  /\ [](JobProgress /\ \A i \in UpdatedRows :
                         insights[i].nextUpdate = insights[i].lastUpdated + Week)
  /\ [][JobStepNow => IndustriesOf(insights') = IndustriesOf(insights)]_vars
\* C27 (amended): as above, with nextUpdate 7 days after the second reading
\* of the clock made by the update, which need not equal lastUpdated.
C27_JobUpdatesEachOnceWeekAfterSecondReading ==
  /\ [](JobProgress /\ \A i \in UpdatedRows :
                         insights[i].nextUpdate = insights[i].nextRead + Week)
  /\ [][JobStepNow => IndustriesOf(insights') = IndustriesOf(insights)]_vars
\* A run failed at its second industry after updating the first, the clock
\* having advanced between the two readings of that update.
C27_Witness ==
  \E p \in JobCalls :
    /\ calls[p].status = "failed"
    /\ Len(calls[p].list) = 2
    /\ calls[p].idx = 2
    /\ LET row == FindInsight(insights, calls[p].list[1]) IN
         /\ row.updatedBy = <<p>>
         /\ row.nextRead # row.lastUpdated
====
